---- MODULE Spec2Model ----
(* Connection hub of 10-websockets/main.go: the coordinator goroutine     *)
(* Hub.run, the accept handler Hub.handleWS and the per-connection reader *)
(* goroutine it starts.  The three channels are unbuffered, so a send and *)
(* its receive are one rendezvous step.                                   *)
EXTENDS Naturals, Integers, Sequences, FiniteSets, TLC

\* Number of connections that are ever accepted.
NumConns == 3
\* Number of messages a reader goroutine reads from its connection.
MaxMsgs == 1
\* Number of connections accepted in the runs checked under fairness.
NumLiveConns == 2
\* Number of goroutines calling Deposit or Withdraw on one account.
NumOps == 2
\* Largest amount deposited, withdrawn or initially on the account.
MaxAmount == 4
\* Number of goroutines incrementing a counter.
NumGoroutines == 4
\* Longest argument list of generate, and largest argument.
MaxLen == 3
MaxVal == 4
\* Number of input channels of fanIn, and the most values sent on one.
NumChans == 2
MaxSends == 2
\* Worker pool: number of workers, most jobs queued, largest job, and the
\* capacities the jobs and results channels are made with.
NumWorkers == 2
MaxJobs == 3
MaxJob == 4
JobsCap == 2
ResultsCap == 1
\* Number of distinct urls fetchData is called with.
NumUrls == 3

Conns == 1..NumConns
\* nil *websocket.Conn / no message
NoConn == 0
NoMsg == <<0, 0>>

VARIABLES
    clients,    \* Hub.clients: the set of keys of the map
    hubPc,      \* position of Hub.run: select, register, unregister, range, write, blocked
    client,     \* the loop variable `client` of the case / range being executed
    message,    \* the `message` received from h.broadcast
    todo,       \* map entries the range loop has not produced yet
    pc,         \* per connection: position of handleWS and of its reader goroutine
    nRead,      \* per connection: messages ReadMessage has returned so far
    closes,     \* per connection: number of Close() calls
    snap,       \* history: h.clients when the current Broadcast was dequeued
    sent,       \* history: per connection, the messages WriteMessage was invoked with in this fan-out
    sendFailed, \* history: connections whose WriteMessage returned an error
    hist,       \* history: per connection, the events the hub has processed for it
    waiting,    \* history: the connections whose task is blocked in a send to the hub, oldest first
    overtaken   \* history: the tasks still blocked on another channel that began before the one just received

\* 13-sync-mutex: BankAccount, SafeCounter and the unsynchronised counter
VARIABLES
    amu,        \* BankAccount.mu: 0 when free, else the goroutine holding it
    balance,    \* BankAccount.balance
    balance0,   \* history: the balance the account was constructed with
    cmu,        \* SafeCounter.mu: 0 when free, else the holder (-1 is the main goroutine)
    value,      \* SafeCounter.value
    counter,    \* the shared `counter` of demonstrateRaceCondition
    gpc,        \* per goroutine: its position
    gtmp,       \* per goroutine: the value it has read and not yet written back
    gop,        \* per goroutine: the BankAccount method it calls
    gamt,       \* per goroutine: the amount it passes
    gret,       \* per goroutine: what Withdraw returned
    mainPc,     \* position of the goroutine that waits on the WaitGroup
    got         \* the value the main goroutine read after wg.Wait()

hubAll == <<clients, hubPc, client, message, todo, pc, nRead, closes, snap, sent, sendFailed, hist, waiting, overtaken>>
mutexVars == <<amu, balance, balance0, cmu, value, counter, gpc, gtmp, gop, gamt, gret, mainPc, got>>

\* 12-concurrency-patterns: generate | square | filterEven, and fanIn
VARIABLES
    nums,       \* the arguments of generate
    genI,       \* how many of them generate has sent
    genPc,      \* generate's goroutine: send, done (its channel is closed)
    sqPc,       \* square's goroutine: recv, send, done (its channel is closed)
    sqVal,      \* the n square has received
    fPc,        \* filterEven's goroutine: recv, send, done (its channel is closed)
    fVal,       \* the n filterEven has received
    results,    \* what the consumer has received from the last stage
    consPc,     \* the consumer's range loop: recv, done
    inq,        \* per input channel of fanIn: what its producer has still to send
    inClosed,   \* per input channel: the producer has closed it
    fwPc,       \* per input channel: fanIn's goroutine for it: recv, send, done
    fwVal,      \* per input channel: the val that goroutine has received
    wgN,        \* the WaitGroup counter of fanIn
    outClosed,  \* how many times close(out) has run
    merged,     \* what the consumer has received from out
    mergedDone, \* the consumer's range over out has ended
    inputs0,    \* history: what each producer was given to send
    sendOnClosed \* history: a goroutine sent on out after close(out)

pipeVars == <<nums, genI, genPc, sqPc, sqVal, fPc, fVal, results, consPc>>
mergeVars == <<inq, inClosed, fwPc, fwVal, wgN, outClosed, merged, mergedDone, inputs0, sendOnClosed>>

\* 12-concurrency-patterns: the worker pool
VARIABLES
    jobs,          \* the buffered channel jobs: the values queued in it
    jobsClosed,    \* close(jobs) has run
    toSend,        \* the jobs the main goroutine has still to send
    poolResults,   \* the buffered channel results: the values queued in it
    resultsClosed, \* close(results) has run
    wPc,           \* per worker: recv, send, done (wg.Done() has run)
    wJob,          \* per worker: the job it has received
    poolWg,        \* the WaitGroup counter
    closerPc,      \* the goroutine of wg.Wait(); close(results): none, wait, done
    poolPc,        \* the main goroutine: send, collect, done
    collected,     \* what the collecting loop has received
    jobs0,         \* history: the jobs that were to be queued
    poolPanic      \* history: a worker sent on results after close(results)

\* 07-context-patterns: fetchData
VARIABLES
    url,        \* the url argument
    ctxKind,    \* how ctx was made: background, cancel (WithCancel), timeout (WithTimeout)
    ctxErr,     \* ctx.Err(): nil, Canceled, DeadlineExceeded; ctx.Done() is closed iff not nil
    ctxErr0,    \* history: ctx.Err() when fetchData was called
    fgPc,       \* the goroutine fetchData starts: sleep, send, done
    resultCh,   \* the channel result (capacity 1): the values queued in it
    errChan,    \* the channel errChan: the values queued in it
    fetchPc,    \* fetchData: call (before its select), parked (in it), returned
    selCase,    \* the case a channel operation woke the parked select with
    ret,        \* what fetchData returned: <<data, err>>
    raced,      \* history: result and ctx.Done() were both ready when the select ran
    doneFirst   \* history: ctx.Done() was closed before the result was sent

poolVars == <<jobs, jobsClosed, toSend, poolResults, resultsClosed, wPc, wJob, poolWg, closerPc, poolPc, collected, jobs0, poolPanic>>
fetchVars == <<url, ctxKind, ctxErr, ctxErr0, fgPc, resultCh, errChan, fetchPc, selCase, ret, raced, doneFirst>>

vars == <<hubAll, mutexVars, pipeVars, mergeVars, poolVars, fetchVars>>

\* What the steps of one lesson leave alone: the state of the other lessons.
nonHubVars == <<mutexVars, pipeVars, mergeVars, poolVars, fetchVars>>
nonMutexVars == <<hubAll, pipeVars, mergeVars, poolVars, fetchVars>>
nonPipeVars == <<hubAll, mutexVars, mergeVars, poolVars, fetchVars>>
nonMergeVars == <<hubAll, mutexVars, pipeVars, poolVars, fetchVars>>
nonPoolVars == <<hubAll, mutexVars, pipeVars, mergeVars, fetchVars>>
nonFetchVars == <<hubAll, mutexVars, pipeVars, mergeVars, poolVars>>

hubVars == <<clients, hubPc, client, message, todo>>
fanVars == <<snap, sent>>

Ev(k, s) == [kind |-> k, seq |-> s]

\* newHub() and go hub.run(): empty map, nothing accepted yet.
HubInit ==
    /\ clients = {}
    /\ hubPc = "select"
    /\ client = NoConn
    /\ message = NoMsg
    /\ todo = {}
    /\ pc = [c \in Conns |-> "idle"]
    /\ nRead = [c \in Conns |-> 0]
    /\ closes = [c \in Conns |-> 0]
    /\ snap = {}
    /\ sent = [c \in Conns |-> <<>>]
    /\ sendFailed = {}
    /\ hist = [c \in Conns |-> <<>>]
    /\ waiting = <<>>
    /\ overtaken = {}

\* The sync-mutex lesson before any of its goroutines exists.
MutexIdle ==
    /\ amu = 0
    /\ balance = 0
    /\ balance0 = 0
    /\ cmu = 0
    /\ value = 0
    /\ counter = 0
    /\ gpc = <<>>
    /\ gtmp = <<>>
    /\ gop = <<>>
    /\ gamt = <<>>
    /\ gret = <<>>
    /\ mainPc = "none"
    /\ got = 0

\* The pipeline before generate is called.
PipeIdle ==
    /\ nums = <<>>
    /\ genI = 0
    /\ genPc = "none"
    /\ sqPc = "none"
    /\ sqVal = 0
    /\ fPc = "none"
    /\ fVal = 0
    /\ results = <<>>
    /\ consPc = "none"

\* fanIn before it is called.
MergeIdle ==
    /\ inq = <<>>
    /\ inClosed = <<>>
    /\ fwPc = <<>>
    /\ fwVal = <<>>
    /\ wgN = 0
    /\ outClosed = 0
    /\ merged = <<>>
    /\ mergedDone = FALSE
    /\ inputs0 = <<>>
    /\ sendOnClosed = FALSE

\* The worker pool before its channels are made.
PoolIdle ==
    /\ jobs = <<>>
    /\ jobsClosed = FALSE
    /\ toSend = <<>>
    /\ poolResults = <<>>
    /\ resultsClosed = FALSE
    /\ wPc = <<>>
    /\ wJob = <<>>
    /\ poolWg = 0
    /\ closerPc = "none"
    /\ poolPc = "none"
    /\ collected = <<>>
    /\ jobs0 = <<>>
    /\ poolPanic = FALSE

\* fetchData before it is called.
FetchIdle ==
    /\ url = 0
    /\ ctxKind = "none"
    /\ ctxErr = "nil"
    /\ ctxErr0 = "nil"
    /\ fgPc = "none"
    /\ resultCh = <<>>
    /\ errChan = <<>>
    /\ fetchPc = "none"
    /\ selCase = "none"
    /\ ret = <<<<>>, "nil">>
    /\ raced = FALSE
    /\ doneFirst = FALSE

\* Each lesson is a program of its own: while one runs the others are idle.
IdleButHub == MutexIdle /\ PipeIdle /\ MergeIdle /\ PoolIdle /\ FetchIdle
IdleButMutex == HubInit /\ PipeIdle /\ MergeIdle /\ PoolIdle /\ FetchIdle
IdleButPipe == HubInit /\ MutexIdle /\ MergeIdle /\ PoolIdle /\ FetchIdle
IdleButMerge == HubInit /\ MutexIdle /\ PipeIdle /\ PoolIdle /\ FetchIdle
IdleButPool == HubInit /\ MutexIdle /\ PipeIdle /\ MergeIdle /\ FetchIdle
IdleButFetch == HubInit /\ MutexIdle /\ PipeIdle /\ MergeIdle /\ PoolIdle

Init == HubInit /\ IdleButHub

----
\* The tasks that began their send before c did and are still blocked in it.
Ahead(w, c) == {w[i] : i \in {i \in 1..Len(w) : \E j \in (i+1)..Len(w) : w[j] = c}}

\* The task of connection c starts a send on one of the hub's channels
\* (h.register <- conn, h.broadcast <- message, h.unregister <- conn) and
\* blocks in it: the channels are unbuffered.
Offer(c) ==
    /\ waiting' = Append(waiting, c)
    /\ UNCHANGED overtaken

\* The select of Hub.run receives what c is sending, whatever began before
\* it on the other channels.
Accept(c) ==
    /\ waiting' = SelectSeq(waiting, LAMBDA d : d # c)
    /\ overtaken' = {d \in Ahead(waiting, c) : pc[d] # pc[c]}

----
\* Hub.handleWS

\* Variant: the handler starts the reader without sending on h.register.
HandleWSUpgradeNoRegister(c) ==
    /\ pc[c] = "idle"
    /\ pc' = [pc EXCEPT ![c] = "read"]
    /\ UNCHANGED <<hubVars, nRead, closes, fanVars, sendFailed, hist>>
    /\ UNCHANGED <<waiting, overtaken>>
    /\ UNCHANGED nonHubVars

\* upgrader.Upgrade succeeds; the handler is now blocked in `h.register <- conn`.
HandleWSUpgrade(c) ==
    /\ pc[c] = "idle"
    /\ pc' = [pc EXCEPT ![c] = "register"]
    /\ UNCHANGED <<hubVars, nRead, closes, fanVars, sendFailed, hist>>
    /\ Offer(c)
    /\ UNCHANGED nonHubVars

\* upgrader.Upgrade fails: log and return, nothing is registered.
HandleWSUpgradeErr(c) ==
    /\ pc[c] = "idle"
    /\ pc' = [pc EXCEPT ![c] = "upgradeFailed"]
    /\ UNCHANGED <<hubVars, nRead, closes, fanVars, sendFailed, hist>>
    /\ UNCHANGED <<waiting, overtaken>>
    /\ UNCHANGED nonHubVars

\* Position of the connection's task once `h.register <- conn` has completed:
\* the handler starts the reader goroutine, which is in conn.ReadMessage().
AfterRegisterSend == "read"

\* conn.ReadMessage() returns a message; the reader is now blocked in
\* `h.broadcast <- message`.  Frames already buffered can still be returned
\* after Close, so this does not depend on closes.
ReadMessageOk(c) ==
    /\ pc[c] = "read"
    /\ nRead[c] < MaxMsgs
    /\ nRead' = [nRead EXCEPT ![c] = @ + 1]
    /\ pc' = [pc EXCEPT ![c] = "broadcast"]
    /\ UNCHANGED <<hubVars, closes, fanVars, sendFailed, hist>>
    /\ Offer(c)
    /\ UNCHANGED nonHubVars

\* conn.ReadMessage() returns an error: break, the deferred function is now
\* blocked in `h.unregister <- conn`.
ReadMessageErr(c) ==
    /\ pc[c] = "read"
    /\ pc' = [pc EXCEPT ![c] = "unregister"]
    /\ UNCHANGED <<hubVars, nRead, closes, fanVars, sendFailed, hist>>
    /\ Offer(c)
    /\ UNCHANGED nonHubVars

----
\* Hub.run

\* Variant: the handler writes h.clients[conn] = true itself before the send.
RecvRegisterHandlerWrites(c) ==
    /\ hubPc = "select"
    /\ pc[c] = "register"
    /\ clients' = clients \cup {c}
    /\ hubPc' = "register"
    /\ client' = c
    /\ pc' = [pc EXCEPT ![c] = AfterRegisterSend]
    /\ UNCHANGED <<message, todo, nRead, closes, fanVars, sendFailed, hist>>
    /\ Accept(c)
    /\ UNCHANGED nonHubVars

\* Variant: a Register is also taken, and applied at once, while the range
\* loop of a fan-out is running.
RecvRegisterDuringFanout(c) ==
    /\ hubPc \in {"select", "range"}
    /\ pc[c] = "register"
    /\ pc' = [pc EXCEPT ![c] = AfterRegisterSend]
    /\ IF hubPc = "select"
         THEN /\ hubPc' = "register"
              /\ client' = c
              /\ UNCHANGED <<clients, hist>>
         ELSE /\ clients' = clients \cup {c}
              /\ hist' = [hist EXCEPT ![c] = Append(@, Ev("register", 0))]
              /\ UNCHANGED <<hubPc, client>>
    /\ UNCHANGED <<message, todo, nRead, closes, fanVars, sendFailed>>
    /\ Accept(c)
    /\ UNCHANGED nonHubVars

\* case client := <-h.register (rendezvous with the handler's send)
RecvRegister(c) ==
    /\ hubPc = "select"
    /\ pc[c] = "register"
    /\ hubPc' = "register"
    /\ client' = c
    /\ pc' = [pc EXCEPT ![c] = AfterRegisterSend]
    /\ UNCHANGED <<clients, message, todo, nRead, closes, fanVars, sendFailed, hist>>
    /\ Accept(c)
    /\ UNCHANGED nonHubVars

\* Variant: the map is replaced instead of extended.
RegisterClientsOverwrite(cl, c) == {c}

\* h.clients[client] = true
RegisterClients(cl, c) == cl \cup {c}

DoRegister ==
    /\ hubPc = "register"
    /\ clients' = RegisterClients(clients, client)
    /\ hist' = [hist EXCEPT ![client] = Append(@, Ev("register", 0))]
    /\ hubPc' = "select"
    /\ client' = NoConn
    /\ UNCHANGED <<message, todo, pc, nRead, closes, fanVars, sendFailed>>
    /\ overtaken' = {}
    /\ UNCHANGED waiting
    /\ UNCHANGED nonHubVars

\* Variant: the reader sends on h.unregister inside its loop and reads on.
RecvUnregisterKeepsReading(c) ==
    /\ hubPc = "select"
    /\ pc[c] = "unregister"
    /\ hubPc' = "unregister"
    /\ client' = c
    /\ pc' = [pc EXCEPT ![c] = "read"]
    /\ UNCHANGED <<clients, message, todo, nRead, closes, fanVars, sendFailed, hist>>
    /\ Accept(c)
    /\ UNCHANGED nonHubVars

\* case client := <-h.unregister (rendezvous with the deferred send)
RecvUnregister(c) ==
    /\ hubPc = "select"
    /\ pc[c] = "unregister"
    /\ hubPc' = "unregister"
    /\ client' = c
    /\ pc' = [pc EXCEPT ![c] = "done"]
    /\ UNCHANGED <<clients, message, todo, nRead, closes, fanVars, sendFailed, hist>>
    /\ Accept(c)
    /\ UNCHANGED nonHubVars

\* Variant: the entry is closed but not deleted.
UnregisterClientsNoDelete(cl, c) == cl

\* Variant: Close is called without the `ok` test.
UnregisterClosesUnguarded(cl, cs, c) == [cs EXCEPT ![c] = @ + 1]

\* if _, ok := h.clients[client]; ok { delete(h.clients, client); client.Close() }
UnregisterClients(cl, c) == IF c \in cl THEN cl \ {c} ELSE cl

UnregisterCloses(cl, cs, c) == IF c \in cl THEN [cs EXCEPT ![c] = @ + 1] ELSE cs

\* Variant: the unregister case only logs.
DoUnregisterIgnored ==
    /\ hubPc = "unregister"
    /\ hist' = [hist EXCEPT ![client] = Append(@, Ev("unregister", 0))]
    /\ hubPc' = "select"
    /\ client' = NoConn
    /\ UNCHANGED <<clients, closes, message, todo, pc, nRead, fanVars, sendFailed>>
    /\ overtaken' = {}
    /\ UNCHANGED waiting
    /\ UNCHANGED nonHubVars

DoUnregister ==
    /\ hubPc = "unregister"
    /\ clients' = UnregisterClients(clients, client)
    /\ closes' = UnregisterCloses(clients, closes, client)
    /\ hist' = [hist EXCEPT ![client] = Append(@, Ev("unregister", 0))]
    /\ hubPc' = "select"
    /\ client' = NoConn
    /\ UNCHANGED <<message, todo, pc, nRead, fanVars, sendFailed>>
    /\ overtaken' = {}
    /\ UNCHANGED waiting
    /\ UNCHANGED nonHubVars

\* Variant: the sender is left out of the fan-out.
RecvBroadcastExcludeSender(c) ==
    /\ hubPc = "select"
    /\ pc[c] = "broadcast"
    /\ hubPc' = "range"
    /\ message' = <<c, nRead[c]>>
    /\ todo' = clients \ {c}
    /\ pc' = [pc EXCEPT ![c] = "read"]
    /\ snap' = clients
    /\ sent' = [d \in Conns |-> <<>>]
    /\ hist' = [hist EXCEPT ![c] = Append(@, Ev("broadcast", nRead[c]))]
    /\ UNCHANGED <<clients, client, nRead, closes, sendFailed>>
    /\ Accept(c)
    /\ UNCHANGED nonHubVars

\* case message := <-h.broadcast (rendezvous with the reader's send); the
\* range loop starts over the current map.
RecvBroadcast(c) ==
    /\ hubPc = "select"
    /\ pc[c] = "broadcast"
    /\ hubPc' = "range"
    /\ message' = <<c, nRead[c]>>
    /\ todo' = clients
    /\ pc' = [pc EXCEPT ![c] = "read"]
    /\ snap' = clients
    /\ sent' = [d \in Conns |-> <<>>]
    /\ hist' = [hist EXCEPT ![c] = Append(@, Ev("broadcast", nRead[c]))]
    /\ UNCHANGED <<clients, client, nRead, closes, sendFailed>>
    /\ Accept(c)
    /\ UNCHANGED nonHubVars

\* Entries the range loop can still produce: not yet produced and not deleted.
RangeRest(td, cl) == td \cap cl

\* The range produces the next entry, in any order, and
\* client.WriteMessage(websocket.TextMessage, message) is invoked.
RangeNext(c) ==
    /\ hubPc = "range"
    /\ c \in RangeRest(todo, clients)
    /\ client' = c
    /\ todo' = todo \ {c}
    /\ sent' = [sent EXCEPT ![c] = Append(@, message)]
    /\ hubPc' = "write"
    /\ UNCHANGED <<clients, message, pc, nRead, closes, snap, sendFailed, hist>>
    /\ UNCHANGED <<waiting, overtaken>>
    /\ UNCHANGED nonHubVars

\* Variant: the loop is left after the first successful write.
WriteOkBreak ==
    /\ hubPc = "write"
    /\ hubPc' = "range"
    /\ client' = NoConn
    /\ todo' = {}
    /\ UNCHANGED <<clients, message, pc, nRead, closes, fanVars, sendFailed, hist>>
    /\ UNCHANGED <<waiting, overtaken>>
    /\ UNCHANGED nonHubVars

\* WriteMessage returned nil.
WriteOk ==
    /\ hubPc = "write"
    /\ hubPc' = "range"
    /\ client' = NoConn
    /\ UNCHANGED <<clients, message, todo, pc, nRead, closes, fanVars, sendFailed, hist>>
    /\ UNCHANGED <<waiting, overtaken>>
    /\ UNCHANGED nonHubVars

\* Variant: the loop is left on the first failed write.
WriteErrBreak ==
    /\ hubPc = "write"
    /\ closes' = [closes EXCEPT ![client] = @ + 1]
    /\ clients' = clients \ {client}
    /\ sendFailed' = sendFailed \cup {client}
    /\ hubPc' = "range"
    /\ client' = NoConn
    /\ todo' = {}
    /\ UNCHANGED <<message, pc, nRead, fanVars, hist>>
    /\ UNCHANGED <<waiting, overtaken>>
    /\ UNCHANGED nonHubVars

\* Variant: a failed write closes the connection but leaves it in the map.
WriteErrNoDelete ==
    /\ hubPc = "write"
    /\ closes' = [closes EXCEPT ![client] = @ + 1]
    /\ sendFailed' = sendFailed \cup {client}
    /\ hubPc' = "range"
    /\ client' = NoConn
    /\ UNCHANGED <<clients, message, todo, pc, nRead, fanVars, hist>>
    /\ UNCHANGED <<waiting, overtaken>>
    /\ UNCHANGED nonHubVars

\* Variant: on a failed write Hub.run sends the connection on h.unregister,
\* the unbuffered channel only Hub.run itself receives from.
WriteErrSendsUnregister ==
    /\ hubPc = "write"
    /\ sendFailed' = sendFailed \cup {client}
    /\ hubPc' = "blocked"
    /\ UNCHANGED <<clients, client, message, todo, pc, nRead, closes, fanVars, hist>>
    /\ UNCHANGED <<waiting, overtaken>>
    /\ UNCHANGED nonHubVars

\* WriteMessage returned an error: client.Close(); delete(h.clients, client)
WriteErr ==
    /\ hubPc = "write"
    /\ closes' = [closes EXCEPT ![client] = @ + 1]
    /\ clients' = clients \ {client}
    /\ sendFailed' = sendFailed \cup {client}
    /\ hubPc' = "range"
    /\ client' = NoConn
    /\ UNCHANGED <<message, todo, pc, nRead, fanVars, hist>>
    /\ UNCHANGED <<waiting, overtaken>>
    /\ UNCHANGED nonHubVars

\* WriteMessage never returns: no write deadline is set and the peer has
\* stopped reading.  Hub.run stays inside the call.
WriteBlocks ==
    /\ hubPc = "write"
    /\ hubPc' = "blocked"
    /\ UNCHANGED <<clients, client, message, todo, pc, nRead, closes, fanVars, sendFailed, hist>>
    /\ UNCHANGED <<waiting, overtaken>>
    /\ UNCHANGED nonHubVars

\* The range is exhausted: back to the select.
RangeDone ==
    /\ hubPc = "range"
    /\ RangeRest(todo, clients) = {}
    /\ hubPc' = "select"
    /\ message' = NoMsg
    /\ todo' = {}
    /\ snap' = {}
    /\ sent' = [d \in Conns |-> <<>>]
    /\ UNCHANGED <<clients, client, pc, nRead, closes, sendFailed, hist>>
    /\ overtaken' = {}
    /\ UNCHANGED waiting
    /\ UNCHANGED nonHubVars

----
Next ==
    \/ \E c \in Conns : HandleWSUpgrade(c)
    \/ \E c \in Conns : HandleWSUpgradeErr(c)
    \/ \E c \in Conns : ReadMessageOk(c)
    \/ \E c \in Conns : ReadMessageErr(c)
    \/ \E c \in Conns : RecvRegister(c)
    \/ DoRegister
    \/ \E c \in Conns : RecvUnregister(c)
    \/ DoUnregister
    \/ \E c \in Conns : RecvBroadcast(c)
    \/ \E c \in Conns : RangeNext(c)
    \/ WriteOk
    \/ WriteErr
    \/ WriteBlocks
    \/ RangeDone

Spec == Init /\ [][Next]_vars

TypeOK ==
    /\ clients \subseteq Conns
    /\ hubPc \in {"select", "register", "unregister", "range", "write", "blocked"}
    /\ client \in Conns \cup {NoConn}
    /\ todo \subseteq Conns
    /\ pc \in [Conns -> {"idle", "upgradeFailed", "register", "read", "broadcast", "unregister", "done"}]
    /\ nRead \in [Conns -> 0..MaxMsgs]
    /\ closes \in [Conns -> 0..2]
    /\ snap \subseteq Conns
    /\ sendFailed \subseteq Conns
    /\ waiting \in Seq(Conns)
    /\ overtaken \subseteq Conns

----
\* Helpers for the properties

\* The hub has processed Register(c) / Unregister(c).
Registered(c) == \E i \in 1..Len(hist[c]) : hist[c][i].kind = "register"
Unregistered(c) == \E i \in 1..Len(hist[c]) : hist[c][i].kind = "unregister"

IsMembership(e) == e.kind \in {"register", "unregister"}
Membership(c) == SelectSeq(hist[c], IsMembership)

\* The range loop of the current fan-out has produced every entry.
FanoutComplete == hubPc = "range" /\ RangeRest(todo, clients) = {}
InFanout == hubPc \in {"range", "write", "blocked"}

\* Some task is blocked sending to the hub.
SenderWaiting == \E c \in Conns : pc[c] \in {"register", "broadcast", "unregister"}

----
\* C1: a Broadcast(m) processed while the peers of the registry are
\* registered invokes WriteMessage with m exactly once on each of them and
\* on no other connection.
C1_BroadcastOncePerPeer ==
    /\ InFanout => \A c \in Conns :
          /\ Len(sent[c]) <= 1
          /\ sent[c] # <<>> => (c \in snap /\ sent[c] = <<message>>)
    /\ FanoutComplete => \A c \in Conns :
          sent[c] = IF c \in snap THEN <<message>> ELSE <<>>

C1_Witness ==
    /\ FanoutComplete
    /\ Cardinality(snap) >= 3
    /\ snap \cap sendFailed = {}
    /\ \A c \in snap : sent[c] = <<message>>

\* C2: when the send to one peer fails during a fan-out, the send is still
\* invoked on every other peer of that fan-out, whatever the order, and the
\* failed peer is not in the registry afterwards.
C2_PartialFailureIsolation ==
    /\ sendFailed \cap clients = {}
    /\ FanoutComplete => \A b \in sendFailed \cap snap :
          \A a \in snap \ {b} : Len(sent[a]) = 1

C2_Witness ==
    /\ FanoutComplete
    /\ Cardinality(snap) >= 3
    /\ Cardinality(snap \cap sendFailed) = 1
    /\ Cardinality(clients) = Cardinality(snap) - 1

\* C3: the hub calls Close on a connection exactly once by the time it has
\* removed it from the registry: never twice, never zero times, and not
\* while it is still registered.
C3_CloseExactlyOnce ==
    \A c \in Conns :
        /\ closes[c] <= 1
        /\ c \in clients => closes[c] = 0
        /\ (Registered(c) /\ c \notin clients) => closes[c] = 1

C3_Witness ==
    \E c \in Conns : c \in sendFailed /\ Unregistered(c) /\ closes[c] = 1

\* C4: for a peer whose events are a Register followed by zero or more
\* Unregisters (no send to it has failed), the peer is in the registry iff
\* the most recent such event processed is a Register.
C4_RegisterUnregisterSymmetry ==
    \A p \in Conns \ sendFailed :
        p \in clients <=>
            /\ Membership(p) # <<>>
            /\ Membership(p)[Len(Membership(p))].kind = "register"

C4_Witness ==
    \E p, q \in Conns \ sendFailed :
        /\ Registered(p) /\ Unregistered(p) /\ p \notin clients
        /\ Registered(q) /\ ~Unregistered(q) /\ q \in clients

\* C5: processing Unregister(p) a second time leaves the registry and the
\* closed connections as the first left them; Unregister of a peer that is
\* not in the registry changes neither.
C5_IdempotentUnregister ==
    /\ [](\A p \in Conns :
            LET cl1 == UnregisterClients(clients, p)
                cs1 == UnregisterCloses(clients, closes, p)
            IN  /\ UnregisterClients(cl1, p) = cl1
                /\ UnregisterCloses(cl1, cs1, p) = cs1
                /\ p \notin clients => (cl1 = clients /\ cs1 = closes))
    /\ [][(hubPc = "unregister" /\ client \notin clients)
            => (clients' = clients /\ closes' = closes)]_vars

C5_Witness ==
    \E p \in Conns :
        /\ p \in sendFailed
        /\ Unregistered(p)
        /\ hubPc = "select"
        /\ closes[p] = 1

\* C6: connections registered concurrently, one Register each: once the
\* Registers are processed (and nothing has been removed) the registry holds
\* exactly those connections.
C6_NoLostRegistrations ==
    LET R == {c \in Conns : Registered(c)} IN
    (sendFailed = {} /\ \A c \in Conns : ~Unregistered(c))
        => (clients = R /\ Cardinality(clients) = Cardinality(R))

C6_Witness ==
    /\ \A c \in Conns : hist[c] = <<Ev("register", 0)>>
    /\ Cardinality(clients) = NumConns

\* C7: after the hub has processed Unregister(a), a is not in the registry
\* and no later fan-out invokes the send on a.
C7_NoSendAfterUnregister ==
    \A a \in Conns : Unregistered(a) =>
        /\ a \notin clients
        /\ a \notin snap
        /\ sent[a] = <<>>
        /\ hubPc \in {"write", "blocked"} => client # a

C7_Witness ==
    \E a, b \in Conns :
        /\ Unregistered(a) /\ a \notin sendFailed
        /\ FanoutComplete
        /\ snap = {b} /\ clients = {b}
        /\ sent[b] = <<message>>

\* C8: a peer whose send never completes does not stall the hub: the other
\* peers of the fan-out still get the message and later events are processed.
C8_SlowPeerDoesNotStall ==
    hubPc = "blocked" => (RangeRest(todo, clients) = {} /\ ~SenderWaiting)

\* C9: only Hub.run changes the registry: a step that changes h.clients is a
\* step of the coordinator at line 38, 43 or 54, and no handler or reader
\* moves in it.
C9_SingleOwner ==
    [][clients' # clients
        => (pc' = pc /\ hubPc \in {"register", "unregister", "write"})]_vars

C9_Witness ==
    /\ clients # {}
    /\ hubPc = "register"
    /\ \E c, d \in Conns : c # d /\ pc[c] = "broadcast" /\ pc[d] = "unregister"

----
\* Connections accepted in the runs checked for progress.
LiveConns == 1..NumLiveConns

\* The hub when every WriteMessage returns: Hub.run without the outcome in
\* which a send never completes.
NextSendsReturn ==
    \/ \E c \in LiveConns : HandleWSUpgrade(c)
    \/ \E c \in LiveConns : HandleWSUpgradeErr(c)
    \/ \E c \in LiveConns : ReadMessageOk(c)
    \/ \E c \in LiveConns : ReadMessageErr(c)
    \/ \E c \in LiveConns : RecvRegister(c)
    \/ DoRegister
    \/ \E c \in LiveConns : RecvUnregister(c)
    \/ DoUnregister
    \/ \E c \in LiveConns : RecvBroadcast(c)
    \/ \E c \in LiveConns : RangeNext(c)
    \/ WriteOk
    \/ WriteErr
    \/ RangeDone

\* Steps Hub.run takes on its own between two receives.
HubInternal ==
    \/ DoRegister
    \/ DoUnregister
    \/ \E c \in Conns : RangeNext(c)
    \/ WriteOk
    \/ WriteErr
    \/ RangeDone

\* The hub goroutine keeps running, and the select, which picks at random
\* among the ready cases, eventually takes a sender that stays ready.
SpecSendsReturn ==
    /\ Init
    /\ [][NextSendsReturn]_vars
    /\ WF_vars(HubInternal)
    /\ \A c \in LiveConns : SF_vars(RecvUnregister(c))

\* A reader has seen ReadMessage fail: it is in, or past, the deferred send.
ReadFailed(c) == pc[c] \in {"unregister", "done"}

\* The connection is live: registered by the hub, not disconnected, not closed.
Live(c) == Registered(c) /\ ~ReadFailed(c) /\ closes[c] = 0

----
\* C11: on a read error the reader emits exactly one Unregister for its
\* connection, reads no more, and terminates: a reader in its deferred send
\* is always received by the hub.
C11_ReaderEmitsAndTerminates ==
    \A c \in Conns :
        /\ Len(SelectSeq(hist[c], LAMBDA e : e.kind = "unregister")) <= 1
        /\ pc[c] = "unregister" => hubPc # "blocked"

\* C12: when every send returns and the hub keeps running, a registered peer
\* whose reader saw a read failure is eventually out of the registry with
\* its connection closed.
C12_NoPeerLeaked ==
    \A c \in LiveConns :
        (pc[c] = "unregister") ~> (c \notin clients /\ closes[c] = 1 /\ pc[c] = "done")

C12_Witness ==
    \E c \in Conns :
        /\ pc[c] = "done"
        /\ c \notin sendFailed
        /\ c \notin clients
        /\ closes[c] = 1

\* C13: a message read from peer p is sent to every registered peer, p
\* included when p is in the registry as its Broadcast is processed.
C13_SenderIncluded ==
    (FanoutComplete /\ message[1] \in snap) =>
        /\ sent[message[1]] = <<message>>
        /\ \A q \in snap \ {message[1]} : sent[q] = <<message>>

C13_Witness ==
    /\ FanoutComplete
    /\ message[1] \in snap
    /\ Cardinality(snap) >= 2
    /\ sent[message[1]] = <<message>>

\* C14 as stated: a peer is in the registry iff it is live.
C14_RegistryIffLive ==
    \A c \in Conns : c \in clients <=> Live(c)

\* C14 amended: a live peer is in the registry, and a peer in the registry
\* has been registered and not closed; it may already have disconnected.
C14_LiveInRegistry ==
    \A c \in Conns :
        /\ Live(c) => c \in clients
        /\ c \in clients => (Registered(c) /\ closes[c] = 0)

C14_Witness ==
    \E c \in Conns : c \in clients /\ pc[c] = "unregister" /\ hubPc = "select"

----
\* 13-sync-mutex

\* Go's int wraps around silently.  The model keeps the wrap-around at a
\* width small enough to enumerate instead of the 64 bits of the build.
IntBits == 4
MaxInt == 2^(IntBits - 1) - 1
MinInt == -(2^(IntBits - 1))
Wrap(x) == ((x - MinInt) % (2^IntBits)) + MinInt

Ops == 1..NumOps
Amounts == 0..MaxAmount
Gor == 1..NumGoroutines
MainGor == -1

RECURSIVE SumOver(_, _)
\* Sum of f[g] over the goroutines g of S.
SumOver(f, S) ==
    IF S = {} THEN 0
    ELSE LET g == CHOOSE x \in S : TRUE IN f[g] + SumOver(f, S \ {g})

\* ---- BankAccount ----

\* account := &BankAccount{balance: b}; one goroutine per call, each about to
\* call Deposit(amount) or Withdraw(amount).
BankInit ==
    /\ IdleButMutex
    /\ balance0 \in Amounts
    /\ balance = balance0
    /\ amu = 0
    /\ gop \in [Ops -> {"deposit", "withdraw"}]
    /\ gamt \in [Ops -> Amounts]
    /\ gpc = [g \in Ops |-> "call"]
    /\ gtmp = [g \in Ops |-> 0]
    /\ gret = [g \in Ops |-> "none"]
    /\ cmu = 0 /\ value = 0 /\ counter = 0 /\ mainPc = "none" /\ got = 0

\* Variant: Lock does not wait for the mutex to be free.
AccountLockNoWait(g) ==
    /\ gpc[g] = "call"
    /\ amu' = g
    /\ gpc' = [gpc EXCEPT ![g] = IF gop[g] = "deposit" THEN "depositRead" ELSE "withdrawCheck"]
    /\ UNCHANGED <<balance, balance0, cmu, value, counter, gtmp, gop, gamt, gret, mainPc, got>>
    /\ UNCHANGED nonMutexVars

\* a.mu.Lock() at the start of Deposit and Withdraw
AccountLock(g) ==
    /\ gpc[g] = "call"
    /\ amu = 0
    /\ amu' = g
    /\ gpc' = [gpc EXCEPT ![g] = IF gop[g] = "deposit" THEN "depositRead" ELSE "withdrawCheck"]
    /\ UNCHANGED <<balance, balance0, cmu, value, counter, gtmp, gop, gamt, gret, mainPc, got>>
    /\ UNCHANGED nonMutexVars

\* a.balance += amount: the read
DepositRead(g) ==
    /\ gpc[g] = "depositRead"
    /\ gtmp' = [gtmp EXCEPT ![g] = balance]
    /\ gpc' = [gpc EXCEPT ![g] = "depositWrite"]
    /\ UNCHANGED <<amu, balance, balance0, cmu, value, counter, gop, gamt, gret, mainPc, got>>
    /\ UNCHANGED nonMutexVars

\* a.balance += amount: the write
DepositWrite(g) ==
    /\ gpc[g] = "depositWrite"
    /\ balance' = Wrap(gtmp[g] + gamt[g])
    /\ gpc' = [gpc EXCEPT ![g] = "unlock"]
    /\ UNCHANGED <<amu, balance0, cmu, value, counter, gtmp, gop, gamt, gret, mainPc, got>>
    /\ UNCHANGED nonMutexVars

\* Variant: the test is on a positive balance, not on the amount.
WithdrawCheckPositive(g) ==
    /\ gpc[g] = "withdrawCheck"
    /\ IF balance > 0
         THEN /\ gpc' = [gpc EXCEPT ![g] = "withdrawRead"]
              /\ gret' = gret
         ELSE /\ gpc' = [gpc EXCEPT ![g] = "unlock"]
              /\ gret' = [gret EXCEPT ![g] = "false"]
    /\ UNCHANGED <<amu, balance, balance0, cmu, value, counter, gtmp, gop, gamt, mainPc, got>>
    /\ UNCHANGED nonMutexVars

\* if a.balance >= amount { ... } return false
WithdrawCheck(g) ==
    /\ gpc[g] = "withdrawCheck"
    /\ IF balance >= gamt[g]
         THEN /\ gpc' = [gpc EXCEPT ![g] = "withdrawRead"]
              /\ gret' = gret
         ELSE /\ gpc' = [gpc EXCEPT ![g] = "unlock"]
              /\ gret' = [gret EXCEPT ![g] = "false"]
    /\ UNCHANGED <<amu, balance, balance0, cmu, value, counter, gtmp, gop, gamt, mainPc, got>>
    /\ UNCHANGED nonMutexVars

\* a.balance -= amount: the read
WithdrawRead(g) ==
    /\ gpc[g] = "withdrawRead"
    /\ gtmp' = [gtmp EXCEPT ![g] = balance]
    /\ gpc' = [gpc EXCEPT ![g] = "withdrawWrite"]
    /\ UNCHANGED <<amu, balance, balance0, cmu, value, counter, gop, gamt, gret, mainPc, got>>
    /\ UNCHANGED nonMutexVars

\* a.balance -= amount: the write; return true
WithdrawWrite(g) ==
    /\ gpc[g] = "withdrawWrite"
    /\ balance' = Wrap(gtmp[g] - gamt[g])
    /\ gret' = [gret EXCEPT ![g] = "true"]
    /\ gpc' = [gpc EXCEPT ![g] = "unlock"]
    /\ UNCHANGED <<amu, balance0, cmu, value, counter, gtmp, gop, gamt, mainPc, got>>
    /\ UNCHANGED nonMutexVars

\* defer a.mu.Unlock(); the call returns
AccountUnlock(g) ==
    /\ gpc[g] = "unlock"
    /\ amu' = 0
    /\ gpc' = [gpc EXCEPT ![g] = "done"]
    /\ UNCHANGED <<balance, balance0, cmu, value, counter, gtmp, gop, gamt, gret, mainPc, got>>
    /\ UNCHANGED nonMutexVars

BankNext ==
    \/ \E g \in Ops : AccountLock(g)
    \/ \E g \in Ops : DepositRead(g)
    \/ \E g \in Ops : DepositWrite(g)
    \/ \E g \in Ops : WithdrawCheck(g)
    \/ \E g \in Ops : WithdrawRead(g)
    \/ \E g \in Ops : WithdrawWrite(g)
    \/ \E g \in Ops : AccountUnlock(g)

BankSpec == BankInit /\ [][BankNext]_vars

Depositors == {g \in Ops : gop[g] = "deposit"}
Withdrawn == {g \in Ops : gret[g] = "true"}
BankDone == \A g \in Ops : gpc[g] = "done"

\* The deposits never take the balance past the largest int.
DepositsFit == balance0 + SumOver(gamt, Depositors) <= MaxInt

----
C16_BalanceAccounting ==
    /\ [](BankDone =>
            balance = Wrap(balance0 + SumOver(gamt, Depositors) - SumOver(gamt, Withdrawn)))
    /\ [][\A g \in Ops :
            (gret[g] = "none" /\ gret'[g] = "false")
                => (balance' = balance /\ gamt[g] > balance)]_vars
    /\ [][\A g \in Ops :
            (gret[g] = "false" /\ gpc[g] # gpc'[g]) => balance' = balance]_vars

C16_Witness ==
    /\ BankDone
    /\ \E d, w \in Ops : gop[d] = "deposit" /\ gamt[d] > 0 /\ gret[w] = "true" /\ gamt[w] > 0
    /\ balance = balance0 + SumOver(gamt, Depositors) - SumOver(gamt, Withdrawn)

----
\* ---- SafeCounter ----

\* counter := SafeCounter{}; NumGoroutines goroutines each about to call
\* Increment; the main goroutine is in wg.Wait().
CounterInit ==
    /\ IdleButMutex
    /\ cmu = 0
    /\ value = 0
    /\ gpc = [g \in Gor |-> "call"]
    /\ gtmp = [g \in Gor |-> 0]
    /\ mainPc = "wait"
    /\ got = 0
    /\ amu = 0 /\ balance = 0 /\ balance0 = 0 /\ counter = 0
    /\ gop = <<>> /\ gamt = <<>> /\ gret = <<>>

\* Variant: Lock does not wait for the mutex to be free.
IncrementLockNoWait(g) ==
    /\ gpc[g] = "call"
    /\ cmu' = g
    /\ gpc' = [gpc EXCEPT ![g] = "incrementRead"]
    /\ UNCHANGED <<amu, balance, balance0, value, counter, gtmp, gop, gamt, gret, mainPc, got>>
    /\ UNCHANGED nonMutexVars

\* c.mu.Lock() in Increment
IncrementLock(g) ==
    /\ gpc[g] = "call"
    /\ cmu = 0
    /\ cmu' = g
    /\ gpc' = [gpc EXCEPT ![g] = "incrementRead"]
    /\ UNCHANGED <<amu, balance, balance0, value, counter, gtmp, gop, gamt, gret, mainPc, got>>
    /\ UNCHANGED nonMutexVars

\* c.value++: the read
IncrementRead(g) ==
    /\ gpc[g] = "incrementRead"
    /\ gtmp' = [gtmp EXCEPT ![g] = value]
    /\ gpc' = [gpc EXCEPT ![g] = "incrementWrite"]
    /\ UNCHANGED <<amu, balance, balance0, cmu, value, counter, gop, gamt, gret, mainPc, got>>
    /\ UNCHANGED nonMutexVars

\* c.value++: the write
IncrementWrite(g) ==
    /\ gpc[g] = "incrementWrite"
    /\ value' = Wrap(gtmp[g] + 1)
    /\ gpc' = [gpc EXCEPT ![g] = "unlock"]
    /\ UNCHANGED <<amu, balance, balance0, cmu, counter, gtmp, gop, gamt, gret, mainPc, got>>
    /\ UNCHANGED nonMutexVars

\* defer c.mu.Unlock(); Increment returns; defer wg.Done()
IncrementUnlock(g) ==
    /\ gpc[g] = "unlock"
    /\ cmu' = 0
    /\ gpc' = [gpc EXCEPT ![g] = "done"]
    /\ UNCHANGED <<amu, balance, balance0, value, counter, gtmp, gop, gamt, gret, mainPc, got>>
    /\ UNCHANGED nonMutexVars

\* wg.Wait() returns once every goroutine has called wg.Done()
WaitReturns ==
    /\ mainPc = "wait"
    /\ \A g \in Gor : gpc[g] = "done"
    /\ mainPc' = "value"
    /\ UNCHANGED <<amu, balance, balance0, cmu, value, counter, gpc, gtmp, gop, gamt, gret, got>>
    /\ UNCHANGED nonMutexVars

\* c.mu.Lock() in Value
ValueLock ==
    /\ mainPc = "value"
    /\ cmu = 0
    /\ cmu' = MainGor
    /\ mainPc' = "valueRead"
    /\ UNCHANGED <<amu, balance, balance0, value, counter, gpc, gtmp, gop, gamt, gret, got>>
    /\ UNCHANGED nonMutexVars

\* return c.value
ValueRead ==
    /\ mainPc = "valueRead"
    /\ got' = value
    /\ mainPc' = "valueUnlock"
    /\ UNCHANGED <<amu, balance, balance0, cmu, value, counter, gpc, gtmp, gop, gamt, gret>>
    /\ UNCHANGED nonMutexVars

\* defer c.mu.Unlock() in Value
ValueUnlock ==
    /\ mainPc = "valueUnlock"
    /\ cmu' = 0
    /\ mainPc' = "done"
    /\ UNCHANGED <<amu, balance, balance0, value, counter, gpc, gtmp, gop, gamt, gret, got>>
    /\ UNCHANGED nonMutexVars

CounterNext ==
    \/ \E g \in Gor : IncrementLock(g)
    \/ \E g \in Gor : IncrementRead(g)
    \/ \E g \in Gor : IncrementWrite(g)
    \/ \E g \in Gor : IncrementUnlock(g)
    \/ WaitReturns
    \/ ValueLock
    \/ ValueRead
    \/ ValueUnlock

CounterSpec == CounterInit /\ [][CounterNext]_vars

\* ---- demonstrateRaceCondition ----

\* var counter int; NumGoroutines goroutines each about to do counter++.
RaceInit ==
    /\ IdleButMutex
    /\ counter = 0
    /\ gpc = [g \in Gor |-> "call"]
    /\ gtmp = [g \in Gor |-> 0]
    /\ mainPc = "wait"
    /\ got = 0
    /\ amu = 0 /\ balance = 0 /\ balance0 = 0 /\ cmu = 0 /\ value = 0
    /\ gop = <<>> /\ gamt = <<>> /\ gret = <<>>

\* counter++: read current value
RaceRead(g) ==
    /\ gpc[g] = "call"
    /\ gtmp' = [gtmp EXCEPT ![g] = counter]
    /\ gpc' = [gpc EXCEPT ![g] = "raceWrite"]
    /\ UNCHANGED <<amu, balance, balance0, cmu, value, counter, gop, gamt, gret, mainPc, got>>
    /\ UNCHANGED nonMutexVars

\* Variant: the increment is one atomic step on the current value.
RaceWriteAtomic(g) ==
    /\ gpc[g] = "raceWrite"
    /\ counter' = Wrap(counter + 1)
    /\ gpc' = [gpc EXCEPT ![g] = "done"]
    /\ UNCHANGED <<amu, balance, balance0, cmu, value, gtmp, gop, gamt, gret, mainPc, got>>
    /\ UNCHANGED nonMutexVars

\* counter++: add 1, write new value; defer wg.Done()
RaceWrite(g) ==
    /\ gpc[g] = "raceWrite"
    /\ counter' = Wrap(gtmp[g] + 1)
    /\ gpc' = [gpc EXCEPT ![g] = "done"]
    /\ UNCHANGED <<amu, balance, balance0, cmu, value, gtmp, gop, gamt, gret, mainPc, got>>
    /\ UNCHANGED nonMutexVars

\* wg.Wait() returns and the counter is printed
RacePrint ==
    /\ mainPc = "wait"
    /\ \A g \in Gor : gpc[g] = "done"
    /\ got' = counter
    /\ mainPc' = "done"
    /\ UNCHANGED <<amu, balance, balance0, cmu, value, counter, gpc, gtmp, gop, gamt, gret>>
    /\ UNCHANGED nonMutexVars

RaceNext ==
    \/ \E g \in Gor : RaceRead(g)
    \/ \E g \in Gor : RaceWrite(g)
    \/ RacePrint

RaceSpec == RaceInit /\ [][RaceNext]_vars

----
\* C17: after NumGoroutines goroutines have each called Increment once,
\* under any interleaving, Value returns exactly that number.
C17_NoLostIncrement ==
    /\ (\A g \in Gor : gpc[g] = "done") => value = NumGoroutines
    /\ mainPc = "done" => got = NumGoroutines

C17_Witness == mainPc = "done" /\ got = NumGoroutines /\ cmu = 0

\* C18: counter++ without a mutex is a read then a write, so the final value
\* depends on the interleaving: it is smaller than the number of increments
\* exactly when two goroutines read the same value, which is reachable (the
\* witness); it is never more than the number of increments.
C18_RaceLosesIncrements ==
    mainPc = "done" =>
        /\ got >= 1 /\ got <= NumGoroutines
        /\ got < NumGoroutines <=> \E g, h \in Gor : g # h /\ gtmp[g] = gtmp[h]

C18_Witness ==
    /\ mainPc = "done"
    /\ got < NumGoroutines
    /\ \E g, h \in Gor : g # h /\ gtmp[g] = gtmp[h]

----
\* 12-concurrency-patterns: the pipeline.  Every channel is unbuffered: a
\* send and its receive are one step.

PipeVals == -1..MaxVal

RECURSIVE SeqsUpTo(_, _)
\* The sequences over S of length at most n.
SeqsUpTo(S, n) ==
    IF n = 0 THEN {<<>>}
    ELSE LET shorter == SeqsUpTo(S, n - 1)
         IN  shorter \cup {Append(q, x) : q \in shorter, x \in S}

\* numbers := generate(nums...); squares := square(numbers);
\* evens := filterEven(squares); for num := range evens
PipeInit ==
    /\ IdleButPipe
    /\ nums \in SeqsUpTo(PipeVals, MaxLen)
    /\ genI = 0
    /\ genPc = "send"
    /\ sqPc = "recv"
    /\ sqVal = 0
    /\ fPc = "recv"
    /\ fVal = 0
    /\ results = <<>>
    /\ consPc = "recv"

\* n * n in square, in int arithmetic
Square(n) == Wrap(n * n)

\* Variant: the test keeps the odd numbers.
IsOdd(n) == n % 2 = 1

\* n%2 == 0 in filterEven
IsEven(n) == n % 2 = 0

\* generate: out <- n, received by square's range
GenerateSend ==
    /\ genPc = "send"
    /\ genI < Len(nums)
    /\ sqPc = "recv"
    /\ sqVal' = nums[genI + 1]
    /\ sqPc' = "send"
    /\ genI' = genI + 1
    /\ UNCHANGED <<nums, genPc, fPc, fVal, results, consPc>>
    /\ UNCHANGED nonPipeVars

\* generate: the loop is over, defer close(out)
GenerateClose ==
    /\ genPc = "send"
    /\ genI = Len(nums)
    /\ genPc' = "done"
    /\ UNCHANGED <<nums, genI, sqPc, sqVal, fPc, fVal, results, consPc>>
    /\ UNCHANGED nonPipeVars

\* square: out <- n * n, received by filterEven's range, which tests it
SquareSend ==
    /\ sqPc = "send"
    /\ fPc = "recv"
    /\ fVal' = Square(sqVal)
    /\ fPc' = IF IsEven(Square(sqVal)) THEN "send" ELSE "recv"
    /\ sqPc' = "recv"
    /\ UNCHANGED <<nums, genI, genPc, sqVal, results, consPc>>
    /\ UNCHANGED nonPipeVars

\* Variant: square returns as soon as its input is closed, forgetting close(out).
SquareCloseForgotten ==
    /\ sqPc = "recv"
    /\ genPc = "done"
    /\ sqPc' = "returned"
    /\ UNCHANGED <<nums, genI, genPc, sqVal, fPc, fVal, results, consPc>>
    /\ UNCHANGED nonPipeVars

\* square: its input is closed, the range ends, defer close(out)
SquareClose ==
    /\ sqPc = "recv"
    /\ genPc = "done"
    /\ sqPc' = "done"
    /\ UNCHANGED <<nums, genI, genPc, sqVal, fPc, fVal, results, consPc>>
    /\ UNCHANGED nonPipeVars

\* filterEven: out <- n, received by the consumer's range
FilterSend ==
    /\ fPc = "send"
    /\ consPc = "recv"
    /\ results' = Append(results, fVal)
    /\ fPc' = "recv"
    /\ UNCHANGED <<nums, genI, genPc, sqPc, sqVal, fVal, consPc>>
    /\ UNCHANGED nonPipeVars

\* filterEven: its input is closed, the range ends, defer close(out)
FilterClose ==
    /\ fPc = "recv"
    /\ sqPc = "done"
    /\ fPc' = "done"
    /\ UNCHANGED <<nums, genI, genPc, sqPc, sqVal, fVal, results, consPc>>
    /\ UNCHANGED nonPipeVars

\* the consumer's range over evens ends on the closed channel
ConsumerDone ==
    /\ consPc = "recv"
    /\ fPc = "done"
    /\ consPc' = "done"
    /\ UNCHANGED <<nums, genI, genPc, sqPc, sqVal, fPc, fVal, results>>
    /\ UNCHANGED nonPipeVars

PipeNext ==
    \/ GenerateSend
    \/ GenerateClose
    \/ SquareSend
    \/ SquareClose
    \/ FilterSend
    \/ FilterClose
    \/ ConsumerDone

\* The scheduler runs a goroutine that can take a step.
PipeSpec == PipeInit /\ [][PipeNext]_vars /\ WF_vars(PipeNext)

\* The squares of the inputs, and those of them that are even, in input order.
Squares(q) == [i \in 1..Len(q) |-> Wrap(q[i] * q[i])]
EvenOnes(q) == SelectSeq(q, LAMBDA n : n % 2 = 0)

IsPrefix(p, q) == Len(p) <= Len(q) /\ \A i \in 1..Len(p) : p[i] = q[i]

PipeDone == genPc = "done" /\ sqPc = "done" /\ fPc = "done" /\ consPc = "done"

----
\* C19: for any finite input the pipeline emits exactly the even squares of
\* the inputs, in input order, then closes its output: the consumer's range
\* ends and every stage goroutine terminates.
C19_PipelineEvenSquares ==
    /\ [](IsPrefix(results, EvenOnes(Squares(nums))))
    /\ [](consPc = "done" => (results = EvenOnes(Squares(nums)) /\ PipeDone))
    /\ <>PipeDone

C19_Witness ==
    /\ PipeDone
    /\ Len(nums) = MaxLen
    /\ Len(results) >= 2
    /\ Len(results) < Len(nums)

----
\* 12-concurrency-patterns: fanIn, with one producer per input channel as in
\* TestFanIn.  The channels are unbuffered.

Chans == 1..NumChans
MergeVals == 1..2

\* merged := fanIn(ch1, ch2, ...): wg.Add(1) has run for every channel and
\* the goroutines are started; each producer sends its values, then closes.
MergeInit ==
    /\ IdleButMerge
    /\ inputs0 \in [Chans -> SeqsUpTo(MergeVals, MaxSends)]
    /\ inq = inputs0
    /\ inClosed = [k \in Chans |-> FALSE]
    /\ fwPc = [k \in Chans |-> "recv"]
    /\ fwVal = [k \in Chans |-> 0]
    /\ wgN = NumChans
    /\ outClosed = 0
    /\ merged = <<>>
    /\ mergedDone = FALSE
    /\ sendOnClosed = FALSE

\* the producer: ch <- v, received by `for val := range c`
ProducerSend(k) ==
    /\ inq[k] # <<>>
    /\ fwPc[k] = "recv"
    /\ fwVal' = [fwVal EXCEPT ![k] = Head(inq[k])]
    /\ inq' = [inq EXCEPT ![k] = Tail(@)]
    /\ fwPc' = [fwPc EXCEPT ![k] = "send"]
    /\ UNCHANGED <<inClosed, wgN, outClosed, merged, mergedDone, inputs0, sendOnClosed>>
    /\ UNCHANGED nonMergeVars

\* the producer: close(ch)
ProducerClose(k) ==
    /\ inq[k] = <<>>
    /\ ~inClosed[k]
    /\ inClosed' = [inClosed EXCEPT ![k] = TRUE]
    /\ UNCHANGED <<inq, fwPc, fwVal, wgN, outClosed, merged, mergedDone, inputs0, sendOnClosed>>
    /\ UNCHANGED nonMergeVars

\* out <- val: received by the consumer's range; on a closed out the send
\* panics instead.
ForwardSend(k) ==
    /\ fwPc[k] = "send"
    /\ IF outClosed > 0
         THEN /\ sendOnClosed' = TRUE
              /\ fwPc' = [fwPc EXCEPT ![k] = "panic"]
              /\ merged' = merged
         ELSE /\ ~mergedDone
              /\ merged' = Append(merged, fwVal[k])
              /\ fwPc' = [fwPc EXCEPT ![k] = "recv"]
              /\ sendOnClosed' = sendOnClosed
    /\ UNCHANGED <<inq, inClosed, fwVal, wgN, outClosed, mergedDone, inputs0>>
    /\ UNCHANGED nonMergeVars

\* the range over c ends on the closed channel; defer wg.Done()
ForwardDone(k) ==
    /\ fwPc[k] = "recv"
    /\ inClosed[k]
    /\ fwPc' = [fwPc EXCEPT ![k] = "done"]
    /\ wgN' = wgN - 1
    /\ UNCHANGED <<inq, inClosed, fwVal, outClosed, merged, mergedDone, inputs0, sendOnClosed>>
    /\ UNCHANGED nonMergeVars

\* Variant: close(out) without wg.Wait().
CloseOutNoWait ==
    /\ outClosed = 0
    /\ outClosed' = outClosed + 1
    /\ UNCHANGED <<inq, inClosed, fwPc, fwVal, wgN, merged, mergedDone, inputs0, sendOnClosed>>
    /\ UNCHANGED nonMergeVars

\* go func() { wg.Wait(); close(out) }()
CloseOut ==
    /\ outClosed = 0
    /\ wgN = 0
    /\ outClosed' = outClosed + 1
    /\ UNCHANGED <<inq, inClosed, fwPc, fwVal, wgN, merged, mergedDone, inputs0, sendOnClosed>>
    /\ UNCHANGED nonMergeVars

\* the consumer's range over merged ends on the closed channel
MergedRangeEnds ==
    /\ outClosed > 0
    /\ ~mergedDone
    /\ mergedDone' = TRUE
    /\ UNCHANGED <<inq, inClosed, fwPc, fwVal, wgN, outClosed, merged, inputs0, sendOnClosed>>
    /\ UNCHANGED nonMergeVars

MergeNext ==
    \/ \E k \in Chans : ProducerSend(k)
    \/ \E k \in Chans : ProducerClose(k)
    \/ \E k \in Chans : ForwardSend(k)
    \/ \E k \in Chans : ForwardDone(k)
    \/ CloseOut
    \/ MergedRangeEnds

MergeSpec == MergeInit /\ [][MergeNext]_vars

\* Number of occurrences of v in the sequence q.
Count(q, v) == Cardinality({i \in 1..Len(q) : q[i] = v})

RECURSIVE CountAll(_, _, _)
\* Number of occurrences of v in the sequences f[k], k in S.
CountAll(f, S, v) ==
    IF S = {} THEN 0
    ELSE LET k == CHOOSE x \in S : TRUE IN Count(f[k], v) + CountAll(f, S \ {k}, v)

\* Values a fanIn goroutine has received and not yet sent on.
InFlight(v) == Cardinality({k \in Chans : fwPc[k] = "send" /\ fwVal[k] = v})

----
\* C20: fanIn delivers every value sent on every input exactly once, closes
\* out exactly once and only after every input is closed and drained, and
\* never sends on out after closing it.
C20_FanInDeliversAll ==
    /\ \A v \in MergeVals :
          Count(merged, v) + InFlight(v) + CountAll(inq, Chans, v) = CountAll(inputs0, Chans, v)
    /\ outClosed <= 1
    /\ outClosed = 1 =>
          /\ \A k \in Chans : inClosed[k] /\ inq[k] = <<>> /\ fwPc[k] = "done"
          /\ \A v \in MergeVals : Count(merged, v) = CountAll(inputs0, Chans, v)
    /\ ~sendOnClosed

C20_Witness ==
    /\ mergedDone
    /\ outClosed = 1
    /\ \A k \in Chans : Len(inputs0[k]) = MaxSends
    /\ Len(merged) = NumChans * MaxSends
    /\ \E i \in 1..Len(merged) : merged[i] # merged[1]

----
\* 10-websockets, continued

\* The connections the current fan-out has invoked WriteMessage on.
Attempted == {c \in Conns : sent[c] # <<>>}

\* The connections whose task is blocked in a send to the hub.
Waiting == {waiting[i] : i \in 1..Len(waiting)}

\* A step of Hub.run: a receive of its select or a step of the case it is in.
HubStep ==
    \/ HubInternal
    \/ \E c \in Conns : RecvRegister(c)
    \/ \E c \in Conns : RecvUnregister(c)
    \/ \E c \in Conns : RecvBroadcast(c)

\* C23: the hub handles each received event to completion before taking
\* the next: between the receive of a Broadcast and the end of its range
\* loop no sender is received and no Register or Unregister takes effect,
\* and the connections the fan-out invokes the send on are exactly the
\* registry as it was when the Broadcast was received.
C23_SynchronousHandling ==
    /\ [](InFanout => Attempted \subseteq snap)
    /\ [](FanoutComplete => Attempted = snap)
    /\ [][hubPc # "select" =>
            /\ Len(waiting') >= Len(waiting)
            /\ SubSeq(waiting', 1, Len(waiting)) = waiting]_vars
    /\ [][InFanout =>
            /\ \A c \in Conns : Membership(c)' = Membership(c)
            /\ clients' \subseteq clients
            /\ InFanout' => (snap' = snap /\ message' = message)]_vars

C23_Witness ==
    /\ FanoutComplete
    /\ Cardinality(snap) >= 2
    /\ Attempted = snap
    /\ \E c \in Conns \ snap : pc[c] = "register"

C25_ArrivalOrder == overtaken = {}

\* Events connection c's task has offered so far, and the one the hub has
\* received from it and not yet applied.
Offered(c) ==
    (IF pc[c] \in {"idle", "upgradeFailed"} THEN 0 ELSE 1)
        + nRead[c]
        + (IF pc[c] \in {"unregister", "done"} THEN 1 ELSE 0)
InHand(c) == IF hubPc \in {"register", "unregister"} /\ client = c THEN 1 ELSE 0

\* C25 amended: a task has at most one offer outstanding, and every event
\* it has offered is processed once, in hand, or still waiting, so the
\* events of one task are processed in the order it offers them; tasks
\* that began earlier on another channel may still be waiting.
C25_PerTaskArrivalOrder ==
    /\ \A i, j \in 1..Len(waiting) : i # j => waiting[i] # waiting[j]
    /\ Waiting = {c \in Conns : pc[c] \in {"register", "broadcast", "unregister"}}
    /\ overtaken \subseteq Waiting
    /\ \A c \in Conns :
          Offered(c) = Len(hist[c]) + InHand(c) + (IF c \in Waiting THEN 1 ELSE 0)

C25_Witness ==
    /\ hubPc = "register"
    /\ \E d \in overtaken : pc[d] = "broadcast"
    /\ \E d \in overtaken : pc[d] = "unregister"

\* Hub.run has returned.
HubExited == hubPc = "returned"

\* Nothing is left for the hub to do: every accepted connection's task has
\* ended and the hub is not inside a case.
Drained ==
    /\ \A c \in Conns : pc[c] \in {"upgradeFailed", "done"}
    /\ hubPc = "select"

\* C26: after shutdown, once the pending events are drained, Hub.run has
\* left its loop.
C26_LoopExitsWhenDrained == Drained => HubExited

\* C27: the hub never invokes the send on a connection it has closed: no
\* closed connection is in the registry, and the connection WriteMessage is
\* invoked on has not been closed.
C27_NoSendOnClosed ==
    /\ \A c \in Conns : closes[c] > 0 => c \notin clients
    /\ hubPc \in {"write", "blocked"} => closes[client] = 0
    /\ InFanout => \A c \in RangeRest(todo, clients) : closes[c] = 0

C27_Witness ==
    /\ hubPc = "write"
    /\ \E d \in snap : closes[d] = 1 /\ d # client
    /\ closes[client] = 0

\* C28 as stated: every Broadcast the hub fans out comes from a peer that
\* is in the registry when the Broadcast is received.
C28_SenderStillRegistered == InFanout => message[1] \in snap

\* C28 amended: every Broadcast the hub fans out comes from a peer whose
\* Register has been processed and whose Unregister has not; a peer removed
\* by a failed send can still have its messages fanned out.
C28_NoBroadcastAfterUnregister ==
    /\ InFanout => (Registered(message[1]) /\ ~Unregistered(message[1]))
    /\ \A c \in Conns : Unregistered(c) => pc[c] = "done"

C28_Witness ==
    /\ InFanout
    /\ message[1] \in sendFailed
    /\ message[1] \notin snap
    /\ \E q \in snap : sent[q] = <<message>>

\* The hub when every WriteMessage returns, the hub goroutine keeps running
\* and its select, which picks at random among the ready cases, eventually
\* takes every sender that stays blocked.
SpecFairSelect ==
    /\ Init
    /\ [][NextSendsReturn]_vars
    /\ WF_vars(HubInternal)
    /\ \A c \in LiveConns : SF_vars(RecvRegister(c))
    /\ \A c \in LiveConns : SF_vars(RecvBroadcast(c))
    /\ \A c \in LiveConns : SF_vars(RecvUnregister(c))

\* C29: provided every send to a peer returns, whenever a handler or a
\* reader is blocked sending to the hub the hub can take a step, and under
\* fair selection every blocked sender is eventually received.
C29_NoDeadlock ==
    /\ [](SenderWaiting => ENABLED HubStep)
    /\ \A c \in LiveConns :
          /\ (pc[c] = "register") ~> (pc[c] # "register")
          /\ (pc[c] = "broadcast") ~> (pc[c] # "broadcast")
          /\ (pc[c] = "unregister") ~> (pc[c] # "unregister")

C29_Witness ==
    /\ hubPc = "write"
    /\ Len(waiting) >= 2
    /\ \E c \in Conns : pc[c] = "unregister"

----
\* 12-concurrency-patterns: demonstrateWorkerPool and worker

Workers == 1..NumWorkers
JobVals == 1..MaxJob

\* jobs := make(chan int, ...); results := make(chan int, ...); the workers
\* are started (wg.Add(1); go worker(w, jobs, results, &wg)) and the main
\* goroutine is about to send the jobs.
PoolInit ==
    /\ IdleButPool
    /\ jobs0 \in SeqsUpTo(JobVals, MaxJobs)
    /\ toSend = jobs0
    /\ jobs = <<>>
    /\ jobsClosed = FALSE
    /\ poolResults = <<>>
    /\ resultsClosed = FALSE
    /\ wPc = [w \in Workers |-> "recv"]
    /\ wJob = [w \in Workers |-> 0]
    /\ poolWg = NumWorkers
    /\ closerPc = "none"
    /\ poolPc = "send"
    /\ collected = <<>>
    /\ poolPanic = FALSE

\* jobs <- j: blocks while the buffer is full
SendJob ==
    /\ poolPc = "send"
    /\ toSend # <<>>
    /\ Len(jobs) < JobsCap
    /\ jobs' = Append(jobs, Head(toSend))
    /\ toSend' = Tail(toSend)
    /\ UNCHANGED <<jobsClosed, poolResults, resultsClosed, wPc, wJob, poolWg, closerPc, poolPc, collected, jobs0, poolPanic>>
    /\ UNCHANGED nonPoolVars

\* close(jobs); go func() { wg.Wait(); close(results) }(); the main goroutine
\* enters `for result := range results`.
CloseJobs ==
    /\ poolPc = "send"
    /\ toSend = <<>>
    /\ jobsClosed' = TRUE
    /\ closerPc' = "wait"
    /\ poolPc' = "collect"
    /\ UNCHANGED <<jobs, toSend, poolResults, resultsClosed, wPc, wJob, poolWg, collected, jobs0, poolPanic>>
    /\ UNCHANGED nonPoolVars

\* for job := range jobs: a value is received
WorkerRecv(w) ==
    /\ wPc[w] = "recv"
    /\ jobs # <<>>
    /\ wJob' = [wJob EXCEPT ![w] = Head(jobs)]
    /\ jobs' = Tail(jobs)
    /\ wPc' = [wPc EXCEPT ![w] = "send"]
    /\ UNCHANGED <<jobsClosed, toSend, poolResults, resultsClosed, poolWg, closerPc, poolPc, collected, jobs0, poolPanic>>
    /\ UNCHANGED nonPoolVars

\* job * 2 in int arithmetic
Double(job) == Wrap(job * 2)

\* results <- job * 2: blocks while the buffer is full, panics when the
\* channel is closed
WorkerSend(w) ==
    /\ wPc[w] = "send"
    /\ IF resultsClosed
         THEN /\ poolPanic' = TRUE
              /\ wPc' = [wPc EXCEPT ![w] = "panicked"]
              /\ UNCHANGED poolResults
         ELSE /\ Len(poolResults) < ResultsCap
              /\ poolResults' = Append(poolResults, Double(wJob[w]))
              /\ wPc' = [wPc EXCEPT ![w] = "recv"]
              /\ UNCHANGED poolPanic
    /\ UNCHANGED <<jobs, jobsClosed, toSend, resultsClosed, wJob, poolWg, closerPc, poolPc, collected, jobs0>>
    /\ UNCHANGED nonPoolVars

\* the range over jobs ends: jobs is closed and empty; defer wg.Done()
WorkerDone(w) ==
    /\ wPc[w] = "recv"
    /\ jobs = <<>>
    /\ jobsClosed
    /\ wPc' = [wPc EXCEPT ![w] = "done"]
    /\ poolWg' = poolWg - 1
    /\ UNCHANGED <<jobs, jobsClosed, toSend, poolResults, resultsClosed, wJob, closerPc, poolPc, collected, jobs0, poolPanic>>
    /\ UNCHANGED nonPoolVars

\* Variant: results is closed without wg.Wait().
CloseResultsNoWait ==
    /\ closerPc = "wait"
    /\ resultsClosed' = TRUE
    /\ closerPc' = "done"
    /\ UNCHANGED <<jobs, jobsClosed, toSend, poolResults, wPc, wJob, poolWg, poolPc, collected, jobs0, poolPanic>>
    /\ UNCHANGED nonPoolVars

\* wg.Wait() returns; close(results)
CloseResults ==
    /\ closerPc = "wait"
    /\ poolWg = 0
    /\ resultsClosed' = TRUE
    /\ closerPc' = "done"
    /\ UNCHANGED <<jobs, jobsClosed, toSend, poolResults, wPc, wJob, poolWg, poolPc, collected, jobs0, poolPanic>>
    /\ UNCHANGED nonPoolVars

\* for result := range results: a value is received
Collect ==
    /\ poolPc = "collect"
    /\ poolResults # <<>>
    /\ collected' = Append(collected, Head(poolResults))
    /\ poolResults' = Tail(poolResults)
    /\ UNCHANGED <<jobs, jobsClosed, toSend, resultsClosed, wPc, wJob, poolWg, closerPc, poolPc, jobs0, poolPanic>>
    /\ UNCHANGED nonPoolVars

\* the range over results ends: results is closed and empty
CollectDone ==
    /\ poolPc = "collect"
    /\ poolResults = <<>>
    /\ resultsClosed
    /\ poolPc' = "done"
    /\ UNCHANGED <<jobs, jobsClosed, toSend, poolResults, resultsClosed, wPc, wJob, poolWg, closerPc, collected, jobs0, poolPanic>>
    /\ UNCHANGED nonPoolVars

PoolNext ==
    \/ SendJob
    \/ CloseJobs
    \/ \E w \in Workers : WorkerRecv(w)
    \/ \E w \in Workers : WorkerSend(w)
    \/ \E w \in Workers : WorkerDone(w)
    \/ CloseResults
    \/ Collect
    \/ CollectDone

\* Every goroutine that can run is eventually run.
PoolSpec == PoolInit /\ [][PoolNext]_vars /\ WF_vars(PoolNext)

\* C21: once the jobs are queued and jobs is closed, the collecting loop
\* ends, and then it has received exactly one result per job, twice that job
\* (in int arithmetic), and every worker has terminated; results is closed
\* only after all workers are done and no worker sends on it after that.
C21_WorkerPoolCompletes ==
    /\ [](poolPc = "done" =>
            /\ Len(collected) = Len(jobs0)
            /\ \A v \in MinInt..MaxInt :
                  Count(collected, v) = Cardinality({i \in 1..Len(jobs0) : Double(jobs0[i]) = v})
            /\ \A w \in Workers : wPc[w] = "done")
    /\ [](resultsClosed => \A w \in Workers : wPc[w] = "done")
    /\ [](~poolPanic)
    /\ (poolPc = "collect") ~> (poolPc = "done")

C21_Witness ==
    /\ poolPc = "done"
    /\ Len(jobs0) = MaxJobs
    /\ Len(collected) = MaxJobs
    /\ collected[1] # Double(jobs0[1])
    /\ closerPc = "done"

----
\* 07-context-patterns: fetchData

Urls == 1..NumUrls
\* The empty string fetchData returns with an error.
NoData == <<>>
\* fmt.Sprintf("Data from %s", url): the prefix followed by the url
DataFrom(u) == <<"Data from ", u>>

\* Variant: result is made unbuffered.
ResultCapUnbuffered == 0

\* result := make(chan string, 1)
ResultCap == 1

\* fetchData(ctx, url) has made its channels and started its goroutine, which
\* is in time.Sleep; ctx is context.Background(), or comes from WithCancel or
\* WithTimeout and may already be cancelled or past its deadline.
FetchInit ==
    /\ IdleButFetch
    /\ url \in Urls
    /\ ctxKind \in {"background", "cancel", "timeout"}
    /\ ctxErr0 \in CASE ctxKind = "background" -> {"nil"}
                     [] ctxKind = "cancel" -> {"nil", "Canceled"}
                     [] ctxKind = "timeout" -> {"nil", "Canceled", "DeadlineExceeded"}
    /\ ctxErr = ctxErr0
    /\ fgPc = "sleep"
    /\ resultCh = <<>>
    /\ errChan = <<>>
    /\ fetchPc = "call"
    /\ selCase = "none"
    /\ ret = <<NoData, "nil">>
    /\ raced = FALSE
    /\ doneFirst = (ctxErr0 # "nil")

\* The select of fetchData is parked with no case chosen yet.
Parked == fetchPc = "parked" /\ selCase = "none"

\* ctx.Done() is closed with error e: a parked select is woken with that case.
CtxDone(e) ==
    /\ ctxErr = "nil"
    /\ ctxErr' = e
    /\ selCase' = IF Parked THEN "done" ELSE selCase
    /\ doneFirst' = (fgPc # "done")
    /\ UNCHANGED <<url, ctxKind, ctxErr0, fgPc, resultCh, errChan, fetchPc, ret, raced>>
    /\ UNCHANGED nonFetchVars

\* the caller's cancel() (WithCancel, or WithTimeout before its deadline)
CtxCancel ==
    /\ ctxKind \in {"cancel", "timeout"}
    /\ CtxDone("Canceled")

\* the deadline of WithTimeout passes
CtxDeadline ==
    /\ ctxKind = "timeout"
    /\ CtxDone("DeadlineExceeded")

\* time.Sleep(100 * time.Millisecond) returns
GoroutineWake ==
    /\ fgPc = "sleep"
    /\ fgPc' = "send"
    /\ UNCHANGED <<url, ctxKind, ctxErr, ctxErr0, resultCh, errChan, fetchPc, selCase, ret, raced, doneFirst>>
    /\ UNCHANGED nonFetchVars

\* result <- fmt.Sprintf("Data from %s", url): handed to the parked select,
\* or queued when the buffer has room; the goroutine ends.
GoroutineSend ==
    /\ fgPc = "send"
    /\ \/ /\ Parked
          /\ selCase' = "result"
          /\ resultCh' = Append(resultCh, DataFrom(url))
       \/ /\ ~Parked
          /\ Len(resultCh) < ResultCap
          /\ resultCh' = Append(resultCh, DataFrom(url))
          /\ UNCHANGED selCase
    /\ fgPc' = "done"
    /\ UNCHANGED <<url, ctxKind, ctxErr, ctxErr0, errChan, fetchPc, ret, raced, doneFirst>>
    /\ UNCHANGED nonFetchVars

\* The cases of the select that can proceed.
Ready ==
    (IF resultCh # <<>> THEN {"result"} ELSE {})
        \cup (IF errChan # <<>> THEN {"err"} ELSE {})
        \cup (IF ctxErr # "nil" THEN {"done"} ELSE {})

\* Variant: the ctx.Done() case returns a nil error.
DoneReturnNilErr(e) == <<NoData, "nil">>

\* case <-ctx.Done(): return "", ctx.Err()
DoneReturn(e) == <<NoData, e>>

\* What fetchData returns when its select proceeds with case k.
Return(k) ==
    /\ fetchPc' = "returned"
    /\ CASE k = "result" -> /\ ret' = <<Head(resultCh), "nil">>
                            /\ resultCh' = Tail(resultCh)
                            /\ UNCHANGED errChan
         [] k = "err"    -> /\ ret' = <<NoData, Head(errChan)>>
                            /\ errChan' = Tail(errChan)
                            /\ UNCHANGED resultCh
         [] k = "done"   -> /\ ret' = DoneReturn(ctxErr)
                            /\ UNCHANGED <<resultCh, errChan>>

\* fetchData reaches its select: it proceeds with one of the ready cases,
\* chosen at random, or parks when none is ready.
SelectEval ==
    /\ fetchPc = "call"
    /\ IF Ready = {}
         THEN /\ fetchPc' = "parked"
              /\ UNCHANGED <<resultCh, errChan, ret, raced>>
         ELSE /\ \E k \in Ready : Return(k)
              /\ raced' = ({"result", "done"} \subseteq Ready)
    /\ UNCHANGED <<url, ctxKind, ctxErr, ctxErr0, fgPc, selCase, doneFirst>>
    /\ UNCHANGED nonFetchVars

\* The parked select is woken by the channel operation that came first.
SelectWake ==
    /\ fetchPc = "parked"
    /\ selCase # "none"
    /\ Return(selCase)
    /\ UNCHANGED <<url, ctxKind, ctxErr, ctxErr0, fgPc, selCase, raced, doneFirst>>
    /\ UNCHANGED nonFetchVars

FetchNext ==
    \/ CtxCancel
    \/ CtxDeadline
    \/ GoroutineWake
    \/ GoroutineSend
    \/ SelectEval
    \/ SelectWake

\* The goroutine fetchData starts is eventually run.
FetchSpec ==
    /\ FetchInit
    /\ [][FetchNext]_vars
    /\ WF_vars(GoroutineWake)
    /\ WF_vars(GoroutineSend)
    /\ WF_vars(SelectEval \/ SelectWake)

\* ctx was already cancelled when fetchData was called / ctx's deadline
\* passed before the result was sent.
AlreadyCancelled == ctxErr0 # "nil"
ExpiredFirst == ctxErr = "DeadlineExceeded" /\ doneFirst

C30_GoroutineTerminates ==
    /\ [](fgPc = "send" => ENABLED GoroutineSend)
    /\ <>(fgPc = "done")
    /\ [](fgPc = "done" => (Len(resultCh) <= ResultCap /\ (resultCh # <<>> \/ ret[1] = DataFrom(url))))

C30_Witness ==
    /\ fetchPc = "returned"
    /\ ret = <<NoData, "Canceled">>
    /\ fgPc = "done"
    /\ resultCh = <<DataFrom(url)>>

====
